---- MODULE Spec2Model ----
(***************************************************************************)
(* State-machine model of the PDFForgePro licensing API: the token codec   *)
(* (license.js), the in-memory LicenseStore (store.js), the payment        *)
(* verification adapter (stripe.js) and the request handlers and webhook   *)
(* handlers of server.js.                                                  *)
(*                                                                         *)
(* Time is an integer number of clock ticks counted from                   *)
(* 2024-01-01T00:00:00.000Z; a second is Resolution ticks (the code's      *)
(* clock has 1000 ms per second).  ISO-8601 strings written by             *)
(* Date.toISOString and read back by new Date(...) carry the tick value.   *)
(* A value that may be null or undefined is the empty tuple when absent    *)
(* and a one-element tuple when present; an absent id or name is "".       *)
(***************************************************************************)
EXTENDS Integers, Sequences, FiniteSets, TLC

\* ---------------------------------------------------------------- bounds
Resolution == 2          \* clock ticks per second

\* ------------------------------------------------------------- constants
DaySecs == 24 * 60 * 60
DayTicks == DaySecs * Resolution
YearTicks == 365 * DayTicks                \* 365 * 24 * 60 * 60 * 1000 ms
TrialCleanupSecs == 7 * DaySecs            \* expiresIn: '7d'
DevPurchasedAt == 0                        \* '2024-01-01T00:00:00.000Z'
StartTime == DayTicks + 1                  \* clock value when the process starts
\* the instants the clock is observed at: at startup and 365 days later, when
\* a license issued at startup reaches its expiresAt
Instants == {StartTime, StartTime + YearTicks}

Null == <<>>                               \* null, undefined, "" (all falsy)
Some(v) == <<v>>
Val(o) == o[1]
Truthy(o) == o # Null
Undefined == <<>>

\* ----------------------------------------------------------- token codec
\* jwt.sign(payload, SECRET, {expiresIn}): exp = iat + expiresIn when given
JwtSign(claims, expiresIn) ==
  [claims EXCEPT !.exp = IF expiresIn = Null THEN Null
                         ELSE Some(claims.iat + Val(expiresIn))]

\* jwt.verify(token, SECRET): "ok" or the error it throws
JwtVerify(token, t) ==
  IF token.sig # "ok" THEN "JsonWebTokenError"
  ELSE IF Truthy(token.exp) /\ (t \div Resolution) >= Val(token.exp)
       THEN "TokenExpiredError"
       ELSE "ok"

\* mutant: the codec expiry follows the trial's own duration
signTrialToken_ExpiresWithTrial(payload, t) ==
  JwtSign([type |-> "trial", startedAt |-> payload.startedAt,
           durationDays |-> payload.durationDays,
           iat |-> t \div Resolution, exp |-> Null, sig |-> "ok"],
          Some(payload.durationDays * DaySecs))

signTrialToken(payload, t) ==
  JwtSign([type |-> "trial", startedAt |-> payload.startedAt,
           durationDays |-> payload.durationDays,
           iat |-> t \div Resolution, exp |-> Null, sig |-> "ok"],
          Some(TrialCleanupSecs))

\* decoded.<field>: undefined when the token carries no such claim
Claim(token, field) ==
  IF field \in DOMAIN token THEN Some(token[field]) ELSE Undefined

\* mutant: the type tag is not looked at
verifyTrialToken_NoTypeCheck(token, t) ==
  IF JwtVerify(token, t) # "ok"
  THEN [ok |-> FALSE, error |-> JwtVerify(token, t)]
  ELSE [ok |-> TRUE,
        trial |-> [startedAt |-> Claim(token, "startedAt"),
                   durationDays |-> Claim(token, "durationDays")]]

\* verifyTrialToken: [ok |-> TRUE, trial |-> pair] or [ok |-> FALSE, error]
verifyTrialToken(token, t) ==
  IF JwtVerify(token, t) # "ok"
  THEN [ok |-> FALSE, error |-> JwtVerify(token, t)]
  ELSE IF token.type # "trial"
  THEN [ok |-> FALSE, error |-> "Invalid trial token type"]
  ELSE [ok |-> TRUE,
        trial |-> [startedAt |-> Claim(token, "startedAt"),
                   durationDays |-> Claim(token, "durationDays")]]

\* mutant: a non-positive lifetime is raised to one second before signing
signLicenseToken_ClampsExpiry(payload, t) ==
  JwtSign([type |-> "license", name |-> payload.name, email |-> payload.email,
           plan |-> payload.plan, purchasedAt |-> payload.purchasedAt,
           expiresAt |-> payload.expiresAt,
           iat |-> t \div Resolution, exp |-> Null, sig |-> "ok"],
          IF Truthy(payload.expiresAt)
          THEN IF (Val(payload.expiresAt) - t) \div Resolution < 1
               THEN Some(1)
               ELSE Some((Val(payload.expiresAt) - t) \div Resolution)
          ELSE Null)

signLicenseToken(payload, t) ==
  JwtSign([type |-> "license", name |-> payload.name, email |-> payload.email,
           plan |-> payload.plan, purchasedAt |-> payload.purchasedAt,
           expiresAt |-> payload.expiresAt,
           iat |-> t \div Resolution, exp |-> Null, sig |-> "ok"],
          IF Truthy(payload.expiresAt)
          THEN Some((Val(payload.expiresAt) - t) \div Resolution)
          ELSE Null)

\* verifyLicenseToken: [ok |-> TRUE, license |-> payload] or [ok |-> FALSE, error]
verifyLicenseToken(token, t) ==
  IF JwtVerify(token, t) # "ok"
  THEN [ok |-> FALSE, error |-> JwtVerify(token, t)]
  ELSE IF token.type # "license"
  THEN [ok |-> FALSE, error |-> "Invalid license token type"]
  ELSE IF Truthy(token.expiresAt) /\ Val(token.expiresAt) < t
  THEN [ok |-> FALSE, error |-> "License has expired"]
  ELSE [ok |-> TRUE,
        license |-> [name |-> token.name, email |-> token.email,
                     plan |-> token.plan, purchasedAt |-> token.purchasedAt,
                     expiresAt |-> token.expiresAt]]

\* --------------------------------------------------------- key generator
Chars == << "A", "B", "C", "D", "E", "F", "G", "H", "I", "J", "K", "L", "M",
            "N", "O", "P", "Q", "R", "S", "T", "U", "V", "W", "X", "Y", "Z",
            "0", "1", "2", "3", "4", "5", "6", "7", "8", "9" >>
SegmentCount == 5                          \* for (let i = 0; i < 5; i++)
SegmentLen == 4                            \* for (let j = 0; j < 4; j++)

\* values of Math.floor(Math.random() * chars.length) the model draws
DrawValues == {0, Len(Chars) - 1}
\* one run of the generator consumes SegmentCount * SegmentLen draws
Draws == {[i \in 1..(SegmentCount * SegmentLen) |-> d] : d \in DrawValues}

RECURSIVE Join(_)
\* segments.join("-")
Join(segments) ==
  IF Len(segments) = 0 THEN <<>>
  ELSE IF Len(segments) = 1 THEN Head(segments)
  ELSE Head(segments) \o <<"-">> \o Join(Tail(segments))

\* generateLicenseKey with the random draws made explicit; a key is the
\* sequence of its characters
generateLicenseKey(draws) ==
  LET seg(i) == [j \in 1..SegmentLen |-> Chars[draws[(i - 1) * SegmentLen + j] + 1]]
      segments == [i \in 1..SegmentCount |-> seg(i)]
  IN  <<"P", "F", "W", "-">> \o Join(segments)

GenKeys == {generateLicenseKey(d) : d \in Draws}

DevLifetimeKey == <<"P","F","W","-","D","E","V","0","-","L","I","F","E","-",
                    "T","I","M","E","-","T","E","S","T">>
DevAnnualKey == <<"P","F","W","-","D","E","V","0","-","A","N","N","U","-",
                  "A","L","0","0","-","T","E","S","T">>
\* a well-formed key that no record is stored under
UnknownKey == <<"P","F","W","-","N","O","N","E">>

\* ----------------------------------------------------------------- store
NoId == ""                                 \* absent / null / "" id
PIIds == {"pi_1"}
SubIds == {"sub_1"}

\* Map.get: Some(value) or Undefined
MapGet(m, k) == IF k \in DOMAIN m THEN Some(m[k]) ELSE Undefined
\* Map.set
MapSet(m, k, v) == [x \in DOMAIN m \cup {k} |-> IF x = k THEN v ELSE m[x]]

Meta(pi, sub, dev) ==
  [paymentIntentId |-> pi, subscriptionId |-> sub, isDevelopment |-> dev]

\* the LicenseStore after its constructor ran at time t
initializeDevelopmentLicenses(t) ==
  LET life == [name |-> "Development User", email |-> "dev@example.com",
               plan |-> "pro-lifetime", purchasedAt |-> DevPurchasedAt,
               expiresAt |-> Null]
      annual == [name |-> "Development User", email |-> "dev@example.com",
                 plan |-> "pro-annual", purchasedAt |-> DevPurchasedAt,
                 expiresAt |-> Some(t + YearTicks)]
      rec(l) == [fullToken |-> signLicenseToken(l, t), license |-> l,
                 metadata |-> Meta(NoId, NoId, TRUE)]
  IN  [licenses |-> (DevLifetimeKey :> rec(life)) @@ (DevAnnualKey :> rec(annual)),
       paymentIntentIndex |-> << >>,
       subscriptionIndex |-> << >>]

\* mutant: the record is indexed but never put into the primary map
storeLicense_IndexOnly(st, key, fullToken, license, metadata) ==
  [licenses |-> st.licenses,
   paymentIntentIndex |->
       IF metadata.paymentIntentId # NoId
       THEN MapSet(st.paymentIntentIndex, metadata.paymentIntentId, key)
       ELSE st.paymentIntentIndex,
   subscriptionIndex |->
       IF metadata.subscriptionId # NoId
       THEN MapSet(st.subscriptionIndex, metadata.subscriptionId, key)
       ELSE st.subscriptionIndex]

storeLicense(st, key, fullToken, license, metadata) ==
  [licenses |-> MapSet(st.licenses, key,
                       [fullToken |-> fullToken, license |-> license,
                        metadata |-> metadata]),
   paymentIntentIndex |->
       IF metadata.paymentIntentId # NoId
       THEN MapSet(st.paymentIntentIndex, metadata.paymentIntentId, key)
       ELSE st.paymentIntentIndex,
   subscriptionIndex |->
       IF metadata.subscriptionId # NoId
       THEN MapSet(st.subscriptionIndex, metadata.subscriptionId, key)
       ELSE st.subscriptionIndex]

getLicenseByKey(st, key) == MapGet(st.licenses, key)

getLicenseByPaymentIntent(st, id) ==
  LET key == MapGet(st.paymentIntentIndex, id)
  IN  IF Truthy(key) THEN MapGet(st.licenses, Val(key)) ELSE Null

getLicenseBySubscription(st, id) ==
  LET key == MapGet(st.subscriptionIndex, id)
  IN  IF Truthy(key) THEN MapGet(st.licenses, Val(key)) ELSE Null

\* key is Some(k) or Undefined, as the caller passes it
updateLicense(st, key, fullToken, license) ==
  LET existing == IF Truthy(key) THEN MapGet(st.licenses, Val(key)) ELSE Undefined
  IN  IF Truthy(existing)
      THEN [st EXCEPT !.licenses =
              MapSet(st.licenses, Val(key),
                     [Val(existing) EXCEPT !.fullToken = fullToken,
                                           !.license = license])]
      ELSE st

\* property read record.field of a stored record: Some(value) or Undefined
Prop(record, field) ==
  IF field \in DOMAIN record THEN Some(record[field]) ELSE Undefined

\* ------------------------------------------------------- payment adapter
\* identities a customer object or an event's metadata may carry
Customers == {[name |-> "", email |-> ""]}

Or(a, b) == IF a # "" THEN a ELSE b        \* a || b on strings

\* what the processor answers to retrieve(id): the call throws, or an object
\* with a status, metadata and possibly a customer whose retrieval may throw
Replies(statuses) ==
  {[threw |-> TRUE, status |-> "", metadata |-> [name |-> "", email |-> ""],
    customer |-> Null, customerThrew |-> FALSE]}
  \cup
  {[threw |-> FALSE, status |-> s, metadata |-> m, customer |-> Null,
    customerThrew |-> FALSE] : s \in statuses, m \in Customers}
  \cup
  {[threw |-> FALSE, status |-> s, metadata |-> m, customer |-> Some(c),
    customerThrew |-> ct] :
      s \in statuses, m \in Customers, c \in Customers, ct \in BOOLEAN}

PaymentIntentReplies == Replies({"succeeded", "requires_payment_method"})
SubscriptionReplies == Replies({"active", "trialing", "canceled"})

\* verifyStripePayment(type, id) given the processor's reply for id
\* mutant: the catch block answers success
verifyStripePayment_CatchSucceeds(type, reply) ==
  LET succeeded ==
        IF type = "payment_intent" THEN reply.status = "succeeded"
        ELSE IF type = "subscription" THEN reply.status \in {"active", "trialing"}
        ELSE FALSE
  IN  IF reply.threw THEN [success |-> TRUE, customerInfo |-> Null]
      ELSE IF succeeded /\ Truthy(reply.customer)
      THEN IF reply.customerThrew
           THEN [success |-> TRUE, customerInfo |-> Null]
           ELSE [success |-> TRUE,
                 customerInfo |->
                   Some([name |-> Or(Val(reply.customer).name, reply.metadata.name),
                         email |-> Or(Val(reply.customer).email, reply.metadata.email)])]
      ELSE [success |-> succeeded, customerInfo |-> Some([name |-> "", email |-> ""])]

verifyStripePayment(type, reply) ==
  LET succeeded ==
        IF type = "payment_intent" THEN reply.status = "succeeded"
        ELSE IF type = "subscription" THEN reply.status \in {"active", "trialing"}
        ELSE FALSE
  IN  IF reply.threw THEN [success |-> FALSE, customerInfo |-> Null]
      ELSE IF succeeded /\ Truthy(reply.customer)
      THEN IF reply.customerThrew
           THEN [success |-> FALSE, customerInfo |-> Null]
           ELSE [success |-> TRUE,
                 customerInfo |->
                   Some([name |-> Or(Val(reply.customer).name, reply.metadata.name),
                         email |-> Or(Val(reply.customer).email, reply.metadata.email)])]
      ELSE [success |-> succeeded, customerInfo |-> Some([name |-> "", email |-> ""])]

\* ------------------------------------------------------ webhook handlers
\* each handler maps the store to [st |-> the store after, threw |-> whether
\* it threw, stored |-> the key its "Stored license" log line names, if any]
Done(st) == [st |-> st, threw |-> FALSE, stored |-> Null]
Threw(st) == [st |-> st, threw |-> TRUE, stored |-> Null]
Minted(st, key) == [st |-> st, threw |-> FALSE, stored |-> Some(key)]

\* mutant: no lookup of an existing record before minting
handlePaymentIntentSucceeded_NoGuard(st, paymentIntent, draws, t) ==
  LET license == [name |-> Or(paymentIntent.metadata.name, "Licensed User"),
                  email |-> Or(paymentIntent.metadata.email, ""),
                  plan |-> "pro-lifetime",
                  purchasedAt |-> t,
                  expiresAt |-> Null]
      licenseKey == generateLicenseKey(draws)
  IN  Minted(storeLicense(st, licenseKey, signLicenseToken(license, t),
                          license, Meta(paymentIntent.id, NoId, FALSE)),
             licenseKey)

handlePaymentIntentSucceeded(st, paymentIntent, draws, t) ==
  LET existing == getLicenseByPaymentIntent(st, paymentIntent.id)
      license == [name |-> Or(paymentIntent.metadata.name, "Licensed User"),
                  email |-> Or(paymentIntent.metadata.email, ""),
                  plan |-> "pro-lifetime",
                  purchasedAt |-> t,
                  expiresAt |-> Null]
      licenseKey == generateLicenseKey(draws)
  IN  IF Truthy(existing) THEN Done(st)
      ELSE Minted(storeLicense(st, licenseKey, signLicenseToken(license, t),
                               license, Meta(paymentIntent.id, NoId, FALSE)),
                  licenseKey)

\* mutant: a repeated invoice pushes the expiry of the existing record forward
handleInvoicePaymentSucceeded_Extends(st, invoice, draws, t) ==
  LET subscriptionId == invoice.subscription
      existing == getLicenseBySubscription(st, subscriptionId)
      license == [name |-> Or(invoice.customer_name, "Licensed User"),
                  email |-> Or(invoice.customer_email, ""),
                  plan |-> "pro-annual",
                  purchasedAt |-> t,
                  expiresAt |-> Some(t + YearTicks)]
      licenseKey == generateLicenseKey(draws)
      updated == [Val(existing).license EXCEPT !.expiresAt = Some(t + YearTicks)]
  IN  IF subscriptionId = NoId THEN Done(st)
      ELSE IF Truthy(existing)
      THEN Done(updateLicense(st, MapGet(st.subscriptionIndex, subscriptionId),
                              signLicenseToken(updated, t), updated))
      ELSE Minted(storeLicense(st, licenseKey, signLicenseToken(license, t),
                               license, Meta(NoId, subscriptionId, FALSE)),
                  licenseKey)

\* mutant: the annual license is minted without an expiry
handleInvoicePaymentSucceeded_NoExpiry(st, invoice, draws, t) ==
  LET subscriptionId == invoice.subscription
      existing == getLicenseBySubscription(st, subscriptionId)
      license == [name |-> Or(invoice.customer_name, "Licensed User"),
                  email |-> Or(invoice.customer_email, ""),
                  plan |-> "pro-annual",
                  purchasedAt |-> t,
                  expiresAt |-> Null]
      licenseKey == generateLicenseKey(draws)
  IN  IF subscriptionId = NoId THEN Done(st)
      ELSE IF Truthy(existing) THEN Done(st)
      ELSE Minted(storeLicense(st, licenseKey, signLicenseToken(license, t),
                               license, Meta(NoId, subscriptionId, FALSE)),
                  licenseKey)

handleInvoicePaymentSucceeded(st, invoice, draws, t) ==
  LET subscriptionId == invoice.subscription
      existing == getLicenseBySubscription(st, subscriptionId)
      license == [name |-> Or(invoice.customer_name, "Licensed User"),
                  email |-> Or(invoice.customer_email, ""),
                  plan |-> "pro-annual",
                  purchasedAt |-> t,
                  expiresAt |-> Some(t + YearTicks)]
      licenseKey == generateLicenseKey(draws)
  IN  IF subscriptionId = NoId THEN Done(st)
      ELSE IF Truthy(existing) THEN Done(st)
      ELSE Minted(storeLicense(st, licenseKey, signLicenseToken(license, t),
                               license, Meta(NoId, subscriptionId, FALSE)),
                  licenseKey)

\* mutant: an active subscription without a record gets one minted
handleSubscriptionChanged_Upserts(st, subscription, t) ==
  LET existing == getLicenseBySubscription(st, subscription.id)
      updated == [Val(existing).license EXCEPT
                    !.expiresAt = Some(Val(subscription.current_period_end) * Resolution)]
      license == [name |-> "Licensed User", email |-> "", plan |-> "pro-annual",
                  purchasedAt |-> t, expiresAt |-> Some(t + YearTicks)]
      licenseKey == generateLicenseKey([i \in 1..(SegmentCount * SegmentLen) |-> 0])
  IN  IF ~Truthy(existing)
      THEN IF subscription.status = "active"
           THEN Minted(storeLicense(st, licenseKey, signLicenseToken(license, t),
                                    license, Meta(NoId, subscription.id, FALSE)),
                       licenseKey)
           ELSE Done(st)
      ELSE IF subscription.status = "active"
      THEN IF ~Truthy(subscription.current_period_end)
           THEN Threw(st)
           ELSE Done(updateLicense(st, Prop(Val(existing), "key"),
                                   signLicenseToken(updated, t), updated))
      ELSE Done(st)

handleSubscriptionChanged(st, subscription, t) ==
  LET existing == getLicenseBySubscription(st, subscription.id)
      \* new Date(current_period_end * 1000).toISOString()
      updated == [Val(existing).license EXCEPT
                    !.expiresAt = Some(Val(subscription.current_period_end) * Resolution)]
  IN  IF ~Truthy(existing) THEN Done(st)
      ELSE IF subscription.status = "active"
      THEN IF ~Truthy(subscription.current_period_end)
           THEN Threw(st)                  \* RangeError: Invalid time value
           ELSE Done(updateLicense(st, Prop(Val(existing), "key"),
                                   signLicenseToken(updated, t), updated))
      ELSE Done(st)

handleSubscriptionDeleted(st, subscription, t) ==
  LET existing == getLicenseBySubscription(st, subscription.id)
      updated == [Val(existing).license EXCEPT !.expiresAt = Some(t)]
  IN  IF ~Truthy(existing) THEN Done(st)
      ELSE Done(updateLicense(st, Prop(Val(existing), "key"),
                              signLicenseToken(updated, t), updated))

\* ----------------------------------------------------------- rate limiter
WindowTicks == 15 * 60 * Resolution        \* windowMs: 15 * 60 * 1000
LicenseMax == 10                           \* licenseLimiter: max
PaymentMax == 5                            \* paymentLimiter: max

\* licenseLimiter guards /license/verify and /license/redeem, paymentLimiter
\* guards /payments/create and /payments/license; each has its own hits map
Limiters == {"license", "payment"}
LimiterMax(l) == IF l = "license" THEN LicenseMax ELSE PaymentMax
LimiterMessage(l) ==
  IF l = "license" THEN "Too many license requests, please try again later."
  ELSE "Too many payment requests, please try again later."

\* mutant: the request that finds the count at max is still let through
makeLimiter_OffByOne(h, max, ip, t) ==
  LET entry == MapGet(h, ip)
  IN  IF ~Truthy(entry) \/ t > Val(entry).resetAt
      THEN [hits |-> MapSet(h, ip, [count |-> 1, resetAt |-> t + WindowTicks]),
            admitted |-> TRUE]
      ELSE IF Val(entry).count > max
      THEN [hits |-> h, admitted |-> FALSE]
      ELSE [hits |-> MapSet(h, ip, [Val(entry) EXCEPT !.count = @ + 1]),
            admitted |-> TRUE]

\* the middleware makeLimiter returns, on a request from ip at time t with the
\* hits map h: the hits map after, and whether next() was called
makeLimiter(h, max, ip, t) ==
  LET entry == MapGet(h, ip)
  IN  IF ~Truthy(entry) \/ t > Val(entry).resetAt
      THEN [hits |-> MapSet(h, ip, [count |-> 1, resetAt |-> t + WindowTicks]),
            admitted |-> TRUE]
      ELSE IF Val(entry).count >= max
      THEN [hits |-> h, admitted |-> FALSE]
      ELSE [hits |-> MapSet(h, ip, [Val(entry) EXCEPT !.count = @ + 1]),
            admitted |-> TRUE]

\* ----------------------------------------------------------------- state
MaxInflight == 1         \* /payments/license requests awaiting the processor

VARIABLES
  licenses,              \* LicenseStore.licenses: key -> record
  paymentIntentIndex,    \* LicenseStore.paymentIntentIndex: id -> key
  subscriptionIndex,     \* LicenseStore.subscriptionIndex: id -> key
  now,                   \* the clock (Date.now()), in ticks
  pending,               \* /payments/license requests suspended at their await
  last,                  \* the step taken last: the request, the answer, the log
  hits                   \* each limiter's hits: ip -> { count, resetAt }

vars == <<licenses, paymentIntentIndex, subscriptionIndex, now, pending, last,
         hits>>
store == <<licenses, paymentIntentIndex, subscriptionIndex>>

Store == [licenses |-> licenses, paymentIntentIndex |-> paymentIntentIndex,
          subscriptionIndex |-> subscriptionIndex]

SetStore(st) ==
  /\ licenses' = st.licenses
  /\ paymentIntentIndex' = st.paymentIntentIndex
  /\ subscriptionIndex' = st.subscriptionIndex

Init ==
  /\ now = StartTime
  /\ licenses = initializeDevelopmentLicenses(StartTime).licenses
  /\ paymentIntentIndex = initializeDevelopmentLicenses(StartTime).paymentIntentIndex
  /\ subscriptionIndex = initializeDevelopmentLicenses(StartTime).subscriptionIndex
  /\ pending = {}
  /\ last = [op |-> "listen"]
  /\ hits = [l \in Limiters |-> << >>]

\* the clock advances to a later instant
Tick ==
  /\ \E t \in Instants : t > now /\ now' = t
  /\ last' = [op |-> "tick"]
  /\ UNCHANGED <<store, pending, hits>>

\* ------------------------------------------------- POST /api/stripe/webhook
\* constructEvent rejects the signature: 400 before any dispatch
\* mutant: the event is dispatched before its signature is looked at
WebhookBadSignature_Dispatches ==
  \E id \in PIIds, m \in Customers, draws \in Draws :
    LET paymentIntent == [id |-> id, metadata |-> m]
        result == handlePaymentIntentSucceeded(Store, paymentIntent, draws, now)
    IN  /\ SetStore(result.st)
        /\ last' = [op |-> "webhook", type |-> "payment_intent.succeeded",
                    id |-> NoId, object |-> "", verified |-> FALSE,
                    redelivery |-> FALSE, stored |-> result.stored,
                    status |-> 400, body |-> "Webhook Error"]
        /\ UNCHANGED <<now, pending, hits>>

WebhookBadSignature ==
  /\ \E type \in {"payment_intent.succeeded", "customer.subscription.deleted"} :
       last' = [op |-> "webhook", type |-> type, id |-> NoId, object |-> "",
                verified |-> FALSE, redelivery |-> FALSE, stored |-> Null,
                status |-> 400, body |-> "Webhook Error"]
  /\ UNCHANGED <<store, now, pending, hits>>

\* the endpoint's answer after the handler for a verified event returned;
\* redelivery: the request answered just before delivered this same event
WebhookAnswer(type, id, status, result) ==
  last' = [op |-> "webhook", type |-> type, id |-> id, object |-> status,
           verified |-> TRUE,
           redelivery |-> /\ last.op = "webhook"
                          /\ last.verified
                          /\ last.type = type
                          /\ last.id = id,
           stored |-> result.stored,
           status |-> IF result.threw THEN 500 ELSE 200,
           body |-> IF result.threw THEN "Webhook processing failed"
                    ELSE "received"]

WebhookPaymentIntentSucceeded ==
  \E id \in PIIds, m \in Customers, draws \in Draws :
    LET paymentIntent == [id |-> id, metadata |-> m]
        result == handlePaymentIntentSucceeded(Store, paymentIntent, draws, now)
    IN  /\ SetStore(result.st)
        /\ WebhookAnswer("payment_intent.succeeded", id, "", result)
        /\ UNCHANGED <<now, pending, hits>>

WebhookInvoicePaymentSucceeded ==
  \E sub \in SubIds \cup {NoId}, c \in Customers, draws \in Draws :
    LET invoice == [subscription |-> sub, customer_name |-> c.name,
                    customer_email |-> c.email]
        result == handleInvoicePaymentSucceeded(Store, invoice, draws, now)
    IN  /\ SetStore(result.st)
        /\ WebhookAnswer("invoice.payment_succeeded", sub, "", result)
        /\ UNCHANGED <<now, pending, hits>>

\* provider-reported period ends (seconds): missing, a year ahead, already over
PeriodEnds(t) == {Null, Some((t \div Resolution) + 365 * DaySecs),
                  Some(t \div Resolution)}

\* customer.subscription.created and customer.subscription.updated
WebhookSubscriptionChanged ==
  \E type \in {"customer.subscription.created", "customer.subscription.updated"},
     id \in SubIds, status \in {"active", "past_due"}, cpe \in PeriodEnds(now) :
    LET subscription == [id |-> id, status |-> status, current_period_end |-> cpe]
        result == handleSubscriptionChanged(Store, subscription, now)
    IN  /\ SetStore(result.st)
        /\ WebhookAnswer(type, id, status, result)
        /\ UNCHANGED <<now, pending, hits>>

WebhookSubscriptionDeleted ==
  \E id \in SubIds :
    LET subscription == [id |-> id]
        result == handleSubscriptionDeleted(Store, subscription, now)
    IN  /\ SetStore(result.st)
        /\ WebhookAnswer("customer.subscription.deleted", id, "", result)
        /\ UNCHANGED <<now, pending, hits>>

\* default: branch of the switch
\* mutant: an event type the switch does not know is refused
WebhookUnhandled_Rejects ==
  /\ last' = [op |-> "webhook", type |-> "charge.refunded", id |-> NoId,
              object |-> "", verified |-> TRUE, redelivery |-> FALSE,
              stored |-> Null, status |-> 400, body |-> "Unhandled event type"]
  /\ UNCHANGED <<store, now, pending, hits>>

WebhookUnhandled ==
  /\ WebhookAnswer("charge.refunded", NoId, "", Done(Store))
  /\ UNCHANGED <<store, now, pending, hits>>

\* ------------------------------------------------ POST /api/payments/license
Plans == {"annual", "lifetime", "monthly", ""}
Bodies == [plan : Plans, paymentIntentId : PIIds \cup {NoId},
           subscriptionId : SubIds \cup {NoId}]

\* the id the handler sends to the adapter, if any
Checks(body) ==
  IF body.plan = "lifetime" /\ body.paymentIntentId # NoId THEN "payment_intent"
  ELSE IF body.plan = "annual" /\ body.subscriptionId # NoId THEN "subscription"
  ELSE "none"

\* what the processor said about the id it was asked for
AdapterSaid(type, reply) ==
  IF reply.threw THEN "failed"
  ELSE IF type = "payment_intent" /\ reply.status # "succeeded" THEN "unconfirmed"
  ELSE IF type = "subscription" /\ reply.status \notin {"active", "trialing"}
  THEN "unconfirmed"
  ELSE IF Truthy(reply.customer) /\ reply.customerThrew THEN "failed"
  ELSE "confirmed"

LicenseAnswer(body, adapter, status, answer) ==
  last' = [op |-> "payments/license", req |-> body, adapter |-> adapter,
           status |-> status, body |-> answer]

NotVerified == [ok |-> FALSE, error |-> "Payment not verified"]

\* the handler up to its await, or to its answer when it never awaits
PaymentsLicenseBegin ==
  \E body \in Bodies :
    IF body.plan \notin {"annual", "lifetime"}
    THEN /\ LicenseAnswer(body, "not asked", 400,
                          [ok |-> FALSE, error |-> "Invalid plan"])
         /\ UNCHANGED <<store, now, pending, hits>>
    ELSE IF Checks(body) = "none"
    THEN /\ LicenseAnswer(body, "not asked", 400, NotVerified)
         /\ UNCHANGED <<store, now, pending, hits>>
    ELSE /\ Cardinality(pending) < MaxInflight
         /\ pending' = pending \cup {body}
         /\ last' = [op |-> "payments/license await", req |-> body]
         /\ UNCHANGED <<store, now, hits>>

\* the handler from the adapter's answer to its response
PaymentsLicenseResume ==
  \E body \in pending, draws \in Draws,
     reply \in PaymentIntentReplies \cup SubscriptionReplies :
    LET verification == verifyStripePayment(Checks(body), reply)
        customerInfo == IF Truthy(verification.customerInfo)
                        THEN Val(verification.customerInfo)
                        ELSE [name |-> "", email |-> ""]
        license == [name |-> Or(customerInfo.name, "Licensed User"),
                    email |-> Or(customerInfo.email, ""),
                    plan |-> IF body.plan = "annual" THEN "pro-annual"
                             ELSE "pro-lifetime",
                    purchasedAt |-> now,
                    expiresAt |-> IF body.plan = "annual"
                                  THEN Some(now + YearTicks) ELSE Null]
        fullToken == signLicenseToken(license, now)
        licenseKey == generateLicenseKey(draws)
    IN  /\ reply \in (IF Checks(body) = "payment_intent"
                      THEN PaymentIntentReplies ELSE SubscriptionReplies)
        /\ pending' = pending \ {body}
        /\ UNCHANGED <<now, hits>>
        /\ IF ~verification.success
           THEN /\ LicenseAnswer(body, AdapterSaid(Checks(body), reply), 400,
                                 NotVerified)
                /\ UNCHANGED store
           ELSE /\ SetStore(storeLicense(Store, licenseKey, fullToken, license,
                                         Meta(body.paymentIntentId,
                                              body.subscriptionId, FALSE)))
                /\ LicenseAnswer(body, AdapterSaid(Checks(body), reply), 200,
                                 [ok |-> TRUE, fullToken |-> fullToken,
                                  licenseKey |-> licenseKey,
                                  licenseMeta |-> license])

\* ------------------------------------------------- POST /api/payments/create
\* createStripeSubscription / createStripePaymentIntent given whether a call
\* to the processor threw: the catch block turns the throw into a result
createStripeSubscription(threw) ==
  IF threw THEN [ok |-> FALSE, error |-> "error.message"]
  ELSE [ok |-> TRUE, subscriptionId |-> "sub_1", clientSecret |-> "secret",
        customerId |-> "cus_1"]

createStripePaymentIntent(threw) ==
  IF threw THEN [ok |-> FALSE, error |-> "error.message"]
  ELSE [ok |-> TRUE, paymentIntentId |-> "pi_1", clientSecret |-> "secret",
        customerId |-> "cus_1"]

\* req.body of /payments/create: complete for each plan the handler accepts,
\* with a plan it does not know, and with the name and email left out
CreateBodies ==
  {[plan |-> p, name |-> "Ada", email |-> "ada@example.com"] :
     p \in {"annual", "lifetime", "monthly"}}
  \cup {[plan |-> "annual", name |-> "", email |-> ""]}

\* the handler does not touch the store, so its awaits are not split
PaymentsCreate ==
  \E body \in CreateBodies, threw \in BOOLEAN :
    LET missing == body.plan = "" \/ body.name = "" \/ body.email = ""
        invalid == body.plan \notin {"annual", "lifetime"}
        result == IF body.plan = "annual" THEN createStripeSubscription(threw)
                  ELSE createStripePaymentIntent(threw)
    IN  /\ (missing \/ invalid) => ~threw
        /\ last' = [op |-> "payments/create", req |-> body,
                    adapter |-> IF missing \/ invalid THEN "not asked"
                                ELSE IF threw THEN "failed" ELSE "created",
                    status |-> IF missing \/ invalid THEN 400 ELSE 200,
                    body |-> IF missing
                             THEN [ok |-> FALSE, error |-> "Missing required fields"]
                             ELSE IF invalid
                             THEN [ok |-> FALSE, error |-> "Invalid plan"]
                             ELSE result]
        /\ UNCHANGED <<store, now, pending, hits>>

\* ----------------------------------------- POST /api/license/verify, redeem
\* a request's licenseKey: missing, a key string, or a token string
KeyInputs == {[kind |-> "key", key |-> k] :
                k \in GenKeys \cup {DevLifetimeKey, DevAnnualKey, UnknownKey}}
TokenInputs(st, t) ==
  LET stored == {st.licenses[k].fullToken : k \in DOMAIN st.licenses}
  IN  {[kind |-> "token", token |-> tok] :
         tok \in stored \cup {[x EXCEPT !.sig = "forged"] : x \in stored}
                 \cup {signTrialToken([startedAt |-> t, durationDays |-> 3], t)}}
Inputs(st, t) == {[kind |-> "missing"]} \cup KeyInputs \cup TokenInputs(st, t)

\* the input read as a store key: the characters of a token never spell a key
AsKey(input) == IF input.kind = "key" THEN input.key ELSE <<"e", "y", "J">>

\* verifyLicenseToken(licenseKey) on the raw input
VerifyInput(input, t) ==
  IF input.kind = "token" THEN verifyLicenseToken(input.token, t)
  ELSE [ok |-> FALSE, error |-> "jwt malformed"]

KeyRequired == [ok |-> FALSE, error |-> "License key required"]
InvalidKey == [ok |-> FALSE, error |-> "Invalid license key"]

\* mutant: a successful verify by key writes the fresh token back to the store
LicenseVerify_StoresFresh ==
  \E input \in Inputs(Store, now) :
    LET direct == VerifyInput(input, now)
        stored == getLicenseByKey(Store, AsKey(input))
        viaKey == IF Truthy(stored)
                  THEN verifyLicenseToken(Val(stored).fullToken, now)
                  ELSE [ok |-> FALSE, error |-> "License not found"]
        outcome == IF direct.ok THEN direct ELSE viaKey
    IN  /\ last' = [op |-> "license/verify", req |-> input,
                    status |-> IF input.kind # "missing" /\ outcome.ok
                               THEN 200 ELSE 400,
                    body |-> IF input.kind = "missing" THEN KeyRequired
                             ELSE IF outcome.ok
                             THEN [ok |-> TRUE,
                                   fullToken |-> signLicenseToken(outcome.license, now),
                                   license |-> outcome.license]
                             ELSE InvalidKey]
        /\ IF input.kind = "key" /\ outcome.ok
           THEN SetStore(updateLicense(Store, Some(input.key),
                                       signLicenseToken(outcome.license, now),
                                       outcome.license))
           ELSE UNCHANGED store
        /\ UNCHANGED <<now, pending, hits>>

LicenseVerify ==
  \E input \in Inputs(Store, now) :
    LET direct == VerifyInput(input, now)
        stored == getLicenseByKey(Store, AsKey(input))
        viaKey == IF Truthy(stored)
                  THEN verifyLicenseToken(Val(stored).fullToken, now)
                  ELSE [ok |-> FALSE, error |-> "License not found"]
        outcome == IF direct.ok THEN direct ELSE viaKey
    IN  /\ last' = [op |-> "license/verify", req |-> input,
                    status |-> IF input.kind # "missing" /\ outcome.ok
                               THEN 200 ELSE 400,
                    body |-> IF input.kind = "missing" THEN KeyRequired
                             ELSE IF outcome.ok
                             THEN [ok |-> TRUE,
                                   fullToken |-> signLicenseToken(outcome.license, now),
                                   license |-> outcome.license]
                             ELSE InvalidKey]
        /\ UNCHANGED <<store, now, pending, hits>>

\* mutant: an input that is not a stored key is tried as a raw license token
LicenseRedeem_TokenFallback ==
  \E input \in Inputs(Store, now) :
    LET stored == getLicenseByKey(Store, AsKey(input))
        direct == VerifyInput(input, now)
        good == /\ input.kind # "missing"
                /\ Truthy(stored)
                /\ verifyLicenseToken(Val(stored).fullToken, now).ok
    IN  /\ last' = [op |-> "license/redeem", req |-> input,
                    status |-> IF good \/ direct.ok THEN 200 ELSE 400,
                    body |-> IF input.kind = "missing" THEN KeyRequired
                             ELSE IF good
                             THEN [ok |-> TRUE, fullToken |-> Val(stored).fullToken]
                             ELSE IF direct.ok
                             THEN [ok |-> TRUE, fullToken |-> input.token]
                             ELSE InvalidKey]
        /\ UNCHANGED <<store, now, pending, hits>>

LicenseRedeem ==
  \E input \in Inputs(Store, now) :
    LET stored == getLicenseByKey(Store, AsKey(input))
        good == /\ input.kind # "missing"
                /\ Truthy(stored)
                /\ verifyLicenseToken(Val(stored).fullToken, now).ok
    IN  /\ last' = [op |-> "license/redeem", req |-> input,
                    status |-> IF good THEN 200 ELSE 400,
                    body |-> IF input.kind = "missing" THEN KeyRequired
                             ELSE IF good
                             THEN [ok |-> TRUE, fullToken |-> Val(stored).fullToken]
                             ELSE InvalidKey]
        /\ UNCHANGED <<store, now, pending, hits>>

\* ------------------------------------- /api/trial/start, /api/trial/status
\* parseInt(process.env.APP_TRIAL_DAYS || "3", 10): the default, and a
\* configured trial longer than the token's 7-day cleanup window
TrialDurations == {3, 8}

\* the instants the token endpoints are observed at, after the process start:
\* around the end of a 3-day trial, around the 7-day cleanup expiry of a token
\* signed at StartTime or one tick later, and when the development annual
\* license runs out
TokenInstants ==
  {StartTime + d : d \in {0, 1, 3 * DayTicks - 1, 3 * DayTicks,
                          3 * DayTicks + 1, 3 * DayTicks + Resolution,
                          7 * DayTicks - 1, 7 * DayTicks, 7 * DayTicks + 1,
                          YearTicks}}

TokenTick ==
  /\ \E t \in TokenInstants : t > now /\ now' = t
  /\ last' = [op |-> "tick"]
  /\ UNCHANGED <<store, pending, hits>>

\* Math.max(0, Math.floor((expiresAt - now) / 1000))
\* mutant: the remaining seconds are not floored at 0
SecondsLeft_Unclamped(expiresAt, t) == (expiresAt - t) \div Resolution

SecondsLeft(expiresAt, t) ==
  IF (expiresAt - t) \div Resolution > 0 THEN (expiresAt - t) \div Resolution
  ELSE 0

TrialStart ==
  \E trialDays \in TrialDurations :
    LET startedAt == now
        expiresAt == now + trialDays * DayTicks
    IN  /\ last' = [op |-> "trial/start", status |-> 200,
                    body |-> [ok |-> TRUE,
                              trialToken |->
                                signTrialToken([startedAt |-> startedAt,
                                                durationDays |-> trialDays], now),
                              startedAt |-> startedAt,
                              expiresAt |-> expiresAt,
                              now |-> now,
                              secondsLeft |-> SecondsLeft(expiresAt, now)]]
        /\ UNCHANGED <<store, now, pending, hits>>

\* req.query.trialToken: missing, not a string, or a token string.  The token
\* strings a client can hold: a trial token /trial/start signed at an earlier
\* instant (or now), the same with its signature broken, or a license token
TrialTokensAt(t) ==
  {signTrialToken([startedAt |-> s, durationDays |-> d], s) :
     s \in {i \in TokenInstants : i <= t}, d \in TrialDurations}
TrialInputs(st, t) ==
  LET licenseTokens == {st.licenses[k].fullToken : k \in DOMAIN st.licenses}
  IN  {[kind |-> "missing"], [kind |-> "array"]}
      \cup {[kind |-> "token", token |-> tok] :
              tok \in TrialTokensAt(t)
                      \cup {[x EXCEPT !.sig = "forged"] : x \in TrialTokensAt(t)}
                      \cup licenseTokens}

TokenRequired == [ok |-> FALSE, error |-> "Trial token required"]
InvalidTrial == [ok |-> FALSE, error |-> "Invalid trial token"]
\* mutant: an expired token is told apart from the other failures
TrialStatus_LeaksExpired ==
  \E input \in TrialInputs(Store, now) :
    LET verified == IF input.kind = "token" THEN verifyTrialToken(input.token, now)
                    ELSE [ok |-> FALSE, error |-> "none"]
        trial == verified.trial
        expiresAt == Val(trial.startedAt) + Val(trial.durationDays) * DayTicks
        secondsLeft == SecondsLeft(expiresAt, now)
        \* an undefined startedAt or durationDays makes expiresAt an Invalid
        \* Date, and toISOString throws into the catch block
        answers == /\ verified.ok
                   /\ Truthy(trial.startedAt)
                   /\ Truthy(trial.durationDays)
    IN  /\ last' = [op |-> "trial/status", req |-> input,
                    status |-> IF answers THEN 200 ELSE 400,
                    body |-> IF input.kind # "token" THEN TokenRequired
                             ELSE IF answers
                             THEN [ok |-> TRUE, trialToken |-> input.token,
                                   startedAt |-> Val(trial.startedAt),
                                   expiresAt |-> expiresAt,
                                   now |-> now,
                                   secondsLeft |-> secondsLeft,
                                   expired |-> secondsLeft = 0]
                             ELSE IF verified.error = "TokenExpiredError"
                             THEN [ok |-> FALSE, error |-> "Trial token expired"]
                             ELSE InvalidTrial]
        /\ UNCHANGED <<store, now, pending, hits>>

TrialStatus ==
  \E input \in TrialInputs(Store, now) :
    LET verified == IF input.kind = "token" THEN verifyTrialToken(input.token, now)
                    ELSE [ok |-> FALSE, error |-> "none"]
        trial == verified.trial
        expiresAt == Val(trial.startedAt) + Val(trial.durationDays) * DayTicks
        secondsLeft == SecondsLeft(expiresAt, now)
        \* an undefined startedAt or durationDays makes expiresAt an Invalid
        \* Date, and toISOString throws into the catch block
        answers == /\ verified.ok
                   /\ Truthy(trial.startedAt)
                   /\ Truthy(trial.durationDays)
    IN  /\ last' = [op |-> "trial/status", req |-> input,
                    status |-> IF answers THEN 200 ELSE 400,
                    body |-> IF input.kind # "token" THEN TokenRequired
                             ELSE IF answers
                             THEN [ok |-> TRUE, trialToken |-> input.token,
                                   startedAt |-> Val(trial.startedAt),
                                   expiresAt |-> expiresAt,
                                   now |-> now,
                                   secondsLeft |-> secondsLeft,
                                   expired |-> secondsLeft = 0]
                             ELSE InvalidTrial]
        /\ UNCHANGED <<store, now, pending, hits>>

\* ------------------------------------------------- the codec on its own
\* verifyTrialToken(signTrialToken(payload)) with the signing at an earlier
\* instant (or now) and the verification now
CodecTrialRoundTrip ==
  \E s \in {i \in TokenInstants : i <= now}, d \in TrialDurations,
     early \in BOOLEAN :
    LET startedAt == IF early THEN StartTime ELSE s
        payload == [startedAt |-> startedAt, durationDays |-> d]
    IN  /\ last' = [op |-> "codec trial", payload |-> payload, signedAt |-> s,
                    result |-> verifyTrialToken(signTrialToken(payload, s), now)]
        /\ UNCHANGED <<store, now, pending, hits>>

\* expiry dates a license payload is signed over, seen from the signing time
Expiries(t) == {Null, Some(t - DayTicks), Some(t - 1), Some(t), Some(t + 1),
                Some(t + Resolution), Some(t + YearTicks)}

\* verifyLicenseToken(signLicenseToken(payload)), both at the same instant
CodecLicenseRoundTrip ==
  \E e \in Expiries(now) :
    LET payload == [name |-> "Licensed User", email |-> "",
                    plan |-> IF e = Null THEN "pro-lifetime" ELSE "pro-annual",
                    purchasedAt |-> StartTime, expiresAt |-> e]
    IN  /\ last' = [op |-> "codec license", payload |-> payload,
                    result |-> verifyLicenseToken(signLicenseToken(payload, now), now)]
        /\ UNCHANGED <<store, now, pending, hits>>

\* each verifier applied to a token the other signer produced
CodecCrossVerify ==
  \E trialToken \in TrialTokensAt(now), key \in DOMAIN licenses :
    /\ last' = [op |-> "codec cross",
                trialAsLicense |-> verifyLicenseToken(trialToken, now),
                licenseAsTrial |-> verifyTrialToken(licenses[key].fullToken, now),
                licenseAsLicense |-> verifyLicenseToken(licenses[key].fullToken, now),
                trialAsTrial |-> verifyTrialToken(trialToken, now)]
    /\ UNCHANGED <<store, now, pending, hits>>

\* --------------------------------------------------- the limiters at work
\* the clients seen: one at the license endpoints, two at the payment endpoints
Clients == {<<"license", "10.0.0.1">>, <<"payment", "10.0.0.1">>,
            <<"payment", "10.0.0.2">>}

\* the instants requests arrive at: when a window opens at StartTime, at its
\* reset time, one tick after it, and after the reset time of a window opened
\* then
LimiterInstants ==
  {StartTime + d : d \in {0, WindowTicks, WindowTicks + 1, 2 * WindowTicks + 2}}

LimiterTick ==
  /\ \E t \in LimiterInstants : t > now /\ now' = t
  /\ last' = [op |-> "tick"]
  /\ UNCHANGED <<store, pending, hits>>

\* a request reaches a limited endpoint and runs its limiter
LimitedRequest ==
  \E client \in Clients :
    LET l == client[1]
        ip == client[2]
        result == makeLimiter(hits[l], LimiterMax(l), ip, now)
    IN  /\ hits' = [hits EXCEPT ![l] = result.hits]
        /\ last' = [op |-> "limiter", limiter |-> l, ip |-> ip,
                    admitted |-> result.admitted,
                    status |-> IF result.admitted THEN Null ELSE Some(429),
                    body |-> IF result.admitted THEN Null
                             ELSE Some([ok |-> FALSE, error |-> LimiterMessage(l)])]
        /\ UNCHANGED <<store, now, pending>>

\* ------------------------------------------------------------ specification
\* issuance, renewal and revocation: the webhook endpoint and /payments/license
Next ==
  \/ Tick
  \/ WebhookBadSignature
  \/ WebhookPaymentIntentSucceeded
  \/ WebhookInvoicePaymentSucceeded
  \/ WebhookSubscriptionChanged
  \/ WebhookSubscriptionDeleted
  \/ WebhookUnhandled
  \/ PaymentsLicenseBegin
  \/ PaymentsLicenseResume

Spec == Init /\ [][Next]_vars

\* the payment endpoints
NextPay ==
  \/ Tick
  \/ PaymentsCreate
  \/ PaymentsLicenseBegin
  \/ PaymentsLicenseResume

SpecPay == Init /\ [][NextPay]_vars

\* the rate limiters
NextLimiter ==
  \/ LimiterTick
  \/ LimitedRequest

SpecLimiter == Init /\ [][NextLimiter]_vars

\* the license endpoints over the stores that issuance by webhook produces
NextRead ==
  \/ Tick
  \/ WebhookPaymentIntentSucceeded
  \/ WebhookInvoicePaymentSucceeded
  \/ WebhookSubscriptionDeleted
  \/ LicenseVerify
  \/ LicenseRedeem

SpecRead == Init /\ [][NextRead]_vars

\* the token endpoints and the codec, over the store the process starts with
NextToken ==
  \/ TokenTick
  \/ TrialStart
  \/ TrialStatus
  \/ LicenseVerify
  \/ LicenseRedeem
  \/ CodecTrialRoundTrip
  \/ CodecLicenseRoundTrip
  \/ CodecCrossVerify

SpecToken == Init /\ [][NextToken]_vars

\* ------------------------------------------------------------------ claims
\* keys of the records whose metadata carries a payment-intent / subscription id
CarryingPI(lic, id) == {k \in DOMAIN lic : lic[k].metadata.paymentIntentId = id}
CarryingSub(lic, id) == {k \in DOMAIN lic : lic[k].metadata.subscriptionId = id}

\* the step just taken answered a signature-verified webhook event of a type
Delivered(types) ==
  /\ last'.op = "webhook"
  /\ last'.verified
  /\ last'.type \in types

Payload(token) ==
  [name |-> token.name, email |-> token.email, plan |-> token.plan,
   purchasedAt |-> token.purchasedAt, expiresAt |-> token.expiresAt]

\* C1: a delivery of payment_intent.succeeded for an id that is not indexed
\* leaves exactly one record carrying the id and indexes it; index entries are
\* never removed; a delivery for an indexed id (so every delivery after the
\* first, handler invocations being atomic) leaves the primary map and both
\* indexes unchanged.
C1_ChargeSucceededOnce ==
  [][ /\ \A id \in DOMAIN paymentIntentIndex : id \in DOMAIN paymentIntentIndex'
      /\ Delivered({"payment_intent.succeeded"}) =>
           IF last'.id \in DOMAIN paymentIntentIndex
           THEN UNCHANGED store /\ last'.stored = Null
           ELSE /\ last'.id \in DOMAIN paymentIntentIndex'
                /\ CarryingPI(licenses', last'.id) = {paymentIntentIndex'[last'.id]}
                /\ last'.stored = Some(paymentIntentIndex'[last'.id]) ]_vars

\* the same charge-succeeded event was delivered twice in a row; the second
\* delivery stored nothing and one record carries the id
C1_Witness ==
  /\ last.op = "webhook"
  /\ last.type = "payment_intent.succeeded"
  /\ last.redelivery
  /\ last.stored = Null
  /\ Cardinality(CarryingPI(licenses, last.id)) = 1

\* C2 (as claimed): after customer.subscription.deleted is processed at time t
\* for a subscription id with a stored record, that record's expiresAt is set
\* and <= t, its token is signed over that payload, and verifyLicense of the
\* stored token fails from t on.
C2_RevocationExpires ==
  [][ ( /\ Delivered({"customer.subscription.deleted"})
        /\ Truthy(getLicenseBySubscription(Store, last'.id)) ) =>
        LET rec == licenses'[subscriptionIndex[last'.id]]
        IN  /\ Truthy(rec.license.expiresAt)
            /\ Val(rec.license.expiresAt) <= now
            /\ Payload(rec.fullToken) = rec.license
            /\ \A t \in Instants :
                 t >= now => ~verifyLicenseToken(rec.fullToken, t).ok ]_vars

\* C3 (as claimed): after a subscription-changed event with status active is
\* processed for a subscription id whose stored record has an expiry, the
\* record's expiresAt is strictly greater than before and its token is signed
\* over the updated payload.
C3_RenewalExtends ==
  [][ ( /\ Delivered({"customer.subscription.created",
                      "customer.subscription.updated"})
        /\ last'.object = "active"
        /\ last'.status = 200
        /\ Truthy(getLicenseBySubscription(Store, last'.id))
        /\ Truthy(licenses[subscriptionIndex[last'.id]].license.expiresAt) ) =>
        LET key == subscriptionIndex[last'.id]
        IN  /\ Truthy(licenses'[key].license.expiresAt)
            /\ Val(licenses'[key].license.expiresAt)
                 > Val(licenses[key].license.expiresAt)
            /\ Payload(licenses'[key].fullToken) = licenses'[key].license ]_vars

\* C4: /payments/license answers 200 with a stored record only when the
\* adapter confirmed the id that matches the plan; every other answer is a
\* 400 that leaves the store unchanged, and for a valid plan it is the
\* "Payment not verified" decline.
C4_DeclinedIssuance ==
  [][ last'.op = "payments/license" =>
        IF last'.status = 200
        THEN /\ last'.adapter = "confirmed"
             /\ Checks(last'.req) # "none"
             /\ last'.body.licenseKey \in DOMAIN licenses'
             /\ licenses'[last'.body.licenseKey].fullToken = last'.body.fullToken
        ELSE /\ UNCHANGED store
             /\ last'.status = 400
             /\ last'.req.plan \in {"annual", "lifetime"} =>
                  last'.body = NotVerified ]_vars

\* the adapter answered that the payment is not settled and issuance was declined
C4_Witness ==
  /\ last.op = "payments/license"
  /\ last.adapter = "unconfirmed"
  /\ last.status = 400
  /\ last.body = NotVerified

\* C5 (as claimed): each payment-intent id and each subscription id is carried
\* by at most one stored record.
C5_AtMostOneRecordPerId ==
  /\ \A id \in PIIds : Cardinality(CarryingPI(licenses, id)) <= 1
  /\ \A id \in SubIds : Cardinality(CarryingSub(licenses, id)) <= 1

\* C6: every key held in the payment-intent index or the subscription index is
\* a key of the primary map, so the lookups by id resolve to a record.
C6_IndexesResolve ==
  /\ \A id \in DOMAIN paymentIntentIndex :
       /\ paymentIntentIndex[id] \in DOMAIN licenses
       /\ Truthy(getLicenseByPaymentIntent(Store, id))
  /\ \A id \in DOMAIN subscriptionIndex :
       /\ subscriptionIndex[id] \in DOMAIN licenses
       /\ Truthy(getLicenseBySubscription(Store, id))

\* both indexes hold an entry, and the two entries name different keys
C6_Witness ==
  /\ DOMAIN paymentIntentIndex # {}
  /\ DOMAIN subscriptionIndex # {}
  /\ \E p \in DOMAIN paymentIntentIndex, q \in DOMAIN subscriptionIndex :
       paymentIntentIndex[p] # subscriptionIndex[q]

\* C7: every stored record has expiresAt = null iff its plan is pro-lifetime.
C7_ExpiryIffAnnual ==
  \A k \in DOMAIN licenses :
    (licenses[k].license.expiresAt = Null) <=> (licenses[k].license.plan = "pro-lifetime")

\* an issued annual record and an issued lifetime record are stored, and a
\* subscription-deleted event for the annual record's id was just processed
C7_Witness ==
  /\ \E a, b \in DOMAIN licenses \cap GenKeys :
       /\ licenses[a].license.plan = "pro-annual"
       /\ licenses[b].license.plan = "pro-lifetime"
  /\ last.op = "webhook"
  /\ last.type = "customer.subscription.deleted"
  /\ last.id \in DOMAIN subscriptionIndex

\* C8: a subscription-changed or subscription-deleted event for a subscription
\* id that is not in the subscription index leaves the primary map and both
\* indexes unchanged; a subscription-changed event never adds a record.
C8_UnknownSubscriptionNoOp ==
  [][ /\ ( /\ Delivered({"customer.subscription.created",
                         "customer.subscription.updated",
                         "customer.subscription.deleted"})
           /\ last'.id \notin DOMAIN subscriptionIndex ) => UNCHANGED store
      /\ Delivered({"customer.subscription.created",
                    "customer.subscription.updated"}) =>
           /\ DOMAIN licenses' = DOMAIN licenses
           /\ last'.stored = Null ]_vars

\* an active subscription event was answered for an id without an index entry
C8_Witness ==
  /\ last.op = "webhook"
  /\ last.type = "customer.subscription.updated"
  /\ last.object = "active"
  /\ last.status = 200
  /\ last.id \notin DOMAIN subscriptionIndex

\* C9: an invoice-paid event for a subscription id that is not indexed stores
\* exactly one record carrying the id, pro-annual, expiring 365 days after the
\* processing time; index entries are never removed; an invoice-paid event for
\* an indexed id leaves the store unchanged.
C9_InvoicePaidOnce ==
  [][ /\ \A id \in DOMAIN subscriptionIndex : id \in DOMAIN subscriptionIndex'
      /\ ( Delivered({"invoice.payment_succeeded"}) /\ last'.id # NoId ) =>
           IF last'.id \in DOMAIN subscriptionIndex
           THEN UNCHANGED store /\ last'.stored = Null
           ELSE /\ last'.id \in DOMAIN subscriptionIndex'
                /\ CarryingSub(licenses', last'.id) = {subscriptionIndex'[last'.id]}
                /\ last'.stored = Some(subscriptionIndex'[last'.id])
                /\ licenses'[subscriptionIndex'[last'.id]].license.plan = "pro-annual"
                /\ licenses'[subscriptionIndex'[last'.id]].license.expiresAt
                     = Some(now + YearTicks) ]_vars

\* the same invoice-paid event was delivered twice in a row, later than the
\* record's purchase; the record still expires 365 days after its purchase
C9_Witness ==
  /\ last.op = "webhook"
  /\ last.type = "invoice.payment_succeeded"
  /\ last.redelivery
  /\ last.stored = Null
  /\ last.id \in DOMAIN subscriptionIndex
  /\ LET lic == licenses[subscriptionIndex[last.id]].license
     IN  /\ lic.plan = "pro-annual"
         /\ lic.purchasedAt < now
         /\ lic.expiresAt = Some(lic.purchasedAt + YearTicks)

\* C10: /license/verify leaves the primary map (stored tokens included) and
\* both indexes unchanged for every input; on success the returned token is
\* signed at the time of the call over the payload that was verified.
C10_VerifyReadOnly ==
  [][ last'.op = "license/verify" =>
        /\ UNCHANGED store
        /\ last'.status = 200 =>
             LET source == IF last'.req.kind = "token" THEN last'.req.token
                           ELSE licenses[last'.req.key].fullToken
                 fresh == last'.body.fullToken
             IN  /\ last'.body.license = Payload(source)
                 /\ Payload(fresh) = Payload(source)
                 /\ fresh.type = "license"
                 /\ fresh.sig = "ok"
                 /\ fresh.iat = now \div Resolution ]_vars

\* a verify by key succeeded and returned a token that is not the stored one
C10_Witness ==
  /\ last.op = "license/verify"
  /\ last.status = 200
  /\ last.req.kind = "key"
  /\ last.body.fullToken # licenses[last.req.key].fullToken

\* C11: /license/redeem answers 200 exactly when the input is the key of a
\* stored record whose stored token passes verifyLicenseToken at the time of
\* the call, and the token it returns is the stored token itself; every other
\* input is answered 400, a raw license token (valid or not) with "Invalid
\* license key"; the store is left unchanged.
C11_RedeemKeyLookupOnly ==
  [][ last'.op = "license/redeem" =>
        LET input == last'.req
            good == /\ input.kind = "key"
                    /\ input.key \in DOMAIN licenses
                    /\ verifyLicenseToken(licenses[input.key].fullToken, now).ok
        IN  /\ UNCHANGED store
            /\ IF good
               THEN /\ last'.status = 200
                    /\ last'.body = [ok |-> TRUE,
                                     fullToken |-> licenses[input.key].fullToken]
               ELSE /\ last'.status = 400
                    /\ ~last'.body.ok
                    /\ input.kind = "token" => last'.body = InvalidKey ]_vars

\* a license token that verifies was presented to /license/redeem and refused
C11_Witness ==
  /\ last.op = "license/redeem"
  /\ last.req.kind = "token"
  /\ verifyLicenseToken(last.req.token, now).ok
  /\ last.status = 400
  /\ last.body = InvalidKey

\* C12: verifyLicenseToken rejects every token signTrialToken produced and
\* verifyTrialToken rejects every token signLicenseToken produced, with the
\* wrong-type error when the token is otherwise valid; a trial token given to
\* /license/verify or /license/redeem and a license token given to
\* /trial/status are answered 400.
C12_TypeTagSeparation ==
  [][ /\ last'.op = "codec cross" =>
           /\ ~last'.trialAsLicense.ok
           /\ ~last'.licenseAsTrial.ok
           /\ last'.trialAsTrial.ok =>
                last'.trialAsLicense.error = "Invalid license token type"
           /\ last'.licenseAsLicense.ok =>
                last'.licenseAsTrial.error = "Invalid trial token type"
      /\ ( /\ last'.op \in {"license/verify", "license/redeem"}
           /\ last'.req.kind = "token"
           /\ last'.req.token.type = "trial" ) =>
           last'.status = 400 /\ last'.body = InvalidKey
      /\ ( /\ last'.op = "trial/status"
           /\ last'.req.kind = "token"
           /\ last'.req.token.type = "license" ) =>
           last'.status = 400 /\ last'.body = InvalidTrial ]_vars

\* a trial token and a license token that each pass their own verifier were
\* each refused by the other verifier for their type tag
C12_Witness ==
  /\ last.op = "codec cross"
  /\ last.trialAsTrial.ok
  /\ last.licenseAsLicense.ok
  /\ last.trialAsLicense = [ok |-> FALSE, error |-> "Invalid license token type"]
  /\ last.licenseAsTrial = [ok |-> FALSE, error |-> "Invalid trial token type"]

\* C13 (amended): verifyTrialToken(signTrialToken(startedAt, durationDays))
\* returns the pair that was signed as long as the clock's second is less than
\* 7 days after the second the token was issued at (its iat), and fails as
\* expired from then on, so at every time later than 7 days after the signing,
\* whatever durationDays is; /trial/status answers such a token with 400.
C13_TrialRoundTrip ==
  [][ /\ last'.op = "codec trial" =>
           LET lived == (now' \div Resolution) - (last'.signedAt \div Resolution)
               p == last'.payload
           IN  /\ lived < 7 * DaySecs =>
                    /\ last'.result.ok
                    /\ last'.result.trial = [startedAt |-> Some(p.startedAt),
                                             durationDays |-> Some(p.durationDays)]
               /\ lived >= 7 * DaySecs =>
                    last'.result = [ok |-> FALSE, error |-> "TokenExpiredError"]
               /\ now' > last'.signedAt + 7 * DayTicks => lived >= 7 * DaySecs
      /\ ( /\ last'.op = "trial/status"
           /\ last'.req.kind = "token"
           /\ last'.req.token.type = "trial"
           /\ now' > last'.req.token.startedAt + 7 * DayTicks ) =>
           last'.status = 400 /\ last'.body = InvalidTrial ]_vars

\* an 8-day trial's token was verified more than 7 days after it was signed,
\* before the 8 days were over, and failed as expired
C13_Witness ==
  /\ last.op = "codec trial"
  /\ last.payload.durationDays = 8
  /\ now > last.signedAt + 7 * DayTicks
  /\ now < last.payload.startedAt + 8 * DayTicks
  /\ last.result = [ok |-> FALSE, error |-> "TokenExpiredError"]

\* C14: a license token signed over a payload whose expiresAt is at or before
\* the signing time fails verifyLicenseToken as expired at the signing time
\* and at every later time.
C14_ExpiredPayloadNeverVerifies ==
  [][ ( /\ last'.op = "codec license"
        /\ Truthy(last'.payload.expiresAt)
        /\ Val(last'.payload.expiresAt) <= now' ) =>
        /\ ~last'.result.ok
        /\ last'.result.error \in {"TokenExpiredError", "License has expired"}
        /\ \A t \in TokenInstants :
             t >= now' =>
               LET later == verifyLicenseToken(signLicenseToken(last'.payload, now'), t)
               IN  /\ ~later.ok
                   /\ later.error \in {"TokenExpiredError", "License has expired"}
      ]_vars

\* a payload expiring at the very instant of signing was signed and refused
C14_Witness ==
  /\ last.op = "codec license"
  /\ last.payload.expiresAt = Some(now)
  /\ last.result = [ok |-> FALSE, error |-> "TokenExpiredError"]

\* C13 (as claimed): the round trip returns the signed pair at every time less
\* than 7 days after the signing instant, and fails as expired at every time
\* later than 7 days after it.
C13_TrialRoundTripAsClaimed ==
  [][ last'.op = "codec trial" =>
        /\ now' < last'.signedAt + 7 * DayTicks =>
             /\ last'.result.ok
             /\ last'.result.trial =
                  [startedAt |-> Some(last'.payload.startedAt),
                   durationDays |-> Some(last'.payload.durationDays)]
        /\ now' > last'.signedAt + 7 * DayTicks =>
             last'.result = [ok |-> FALSE, error |-> "TokenExpiredError"] ]_vars

\* the end of the trial a /trial/status request was answered for
TrialEnd(req) == req.token.startedAt + req.token.durationDays * DayTicks

\* C15 (as claimed): for a verifying trial token /trial/status returns
\* secondsLeft = max(0, floor((startedAt + durationDays days - now) / 1 s)) and
\* an expired flag that is false at every time before startedAt + durationDays
\* days, true with secondsLeft = 0 from one second after it, and stays true;
\* an immediate check of a 3-day trial gives 3 * 86400 and expired = false.
C15_TrialStatusAsClaimed ==
  [][ ( last'.op = "trial/status" /\ last'.status = 200 ) =>
        LET end == TrialEnd(last'.req)
            b == last'.body
        IN  /\ b.secondsLeft = IF end - now' > 0
                               THEN (end - now') \div Resolution ELSE 0
            /\ now' < end => ~b.expired
            /\ now' >= end + Resolution => b.expired /\ b.secondsLeft = 0
            /\ b.expired => \A t \in TokenInstants :
                              t >= now' => SecondsLeft(end, t) = 0
            /\ ( last'.req.token.durationDays = 3 /\ now' = b.startedAt ) =>
                 b.secondsLeft = 3 * DaySecs /\ ~b.expired ]_vars

\* C15 (amended): as above, with the expired flag true exactly when
\* secondsLeft = 0, that is when less than one whole second of the trial
\* remains: false at every time one second or more before startedAt +
\* durationDays days, true from less than a second before it on.
C15_TrialStatus ==
  [][ ( last'.op = "trial/status" /\ last'.status = 200 ) =>
        LET end == TrialEnd(last'.req)
            b == last'.body
        IN  /\ b.startedAt = last'.req.token.startedAt
            /\ b.expiresAt = end
            /\ b.now = now'
            /\ b.secondsLeft = IF end - now' > 0
                               THEN (end - now') \div Resolution ELSE 0
            /\ b.expired <=> (b.secondsLeft = 0)
            /\ b.expired <=> (end - now' < Resolution)
            /\ now' >= end + Resolution => b.expired /\ b.secondsLeft = 0
            /\ b.expired => \A t \in TokenInstants :
                              t >= now' => SecondsLeft(end, t) = 0
            /\ ( last'.req.token.durationDays = 3 /\ now' = b.startedAt ) =>
                 b.secondsLeft = 3 * DaySecs /\ ~b.expired ]_vars

\* a trial with less than a second left was reported expired
C15_Witness ==
  /\ last.op = "trial/status"
  /\ last.status = 200
  /\ now < last.body.expiresAt
  /\ last.body.expired
  /\ last.body.secondsLeft = 0

\* C16 (as claimed): every signature-verified webhook event is answered with
\* the acknowledgement {received: true}, whatever its type and whatever its
\* handler did.
C16_AlwaysAcknowledges ==
  [][ ( last'.op = "webhook" /\ last'.verified ) =>
        last'.status = 200 /\ last'.body = "received" ]_vars

\* C16 (amended): a signature-verified webhook event of any type, handled or
\* not, is acknowledged unless its handler throws; only handleSubscriptionChanged
\* throws, on an active subscription that has a stored record (when the event
\* carries no current_period_end), and the answer is then 500 "Webhook
\* processing failed" with the store unchanged.
C16_AcknowledgesUnlessThrown ==
  [][ ( last'.op = "webhook" /\ last'.verified ) =>
        \/ last'.status = 200 /\ last'.body = "received"
        \/ /\ last'.status = 500
           /\ last'.body = "Webhook processing failed"
           /\ last'.type \in {"customer.subscription.created",
                              "customer.subscription.updated"}
           /\ last'.object = "active"
           /\ last'.id \in DOMAIN subscriptionIndex
           /\ handleSubscriptionChanged(Store,
                                        [id |-> last'.id, status |-> last'.object,
                                         current_period_end |-> Null], now).threw
           /\ last'.stored = Null
           /\ UNCHANGED store ]_vars

\* a verified subscription event whose handler threw was answered 500
C16_Witness ==
  /\ last.op = "webhook"
  /\ last.verified
  /\ last.type = "customer.subscription.updated"
  /\ last.status = 500
  /\ last.body = "Webhook processing failed"

\* C17: a webhook request whose signature does not verify is answered 400,
\* no handler stores anything for it and the primary map and both indexes are
\* unchanged; a webhook request that changes the store is a verified one.
C17_SignatureBeforeDispatch ==
  [][ last'.op = "webhook" =>
        /\ ~last'.verified =>
             /\ last'.status = 400
             /\ last'.body = "Webhook Error"
             /\ last'.stored = Null
             /\ UNCHANGED store
        /\ ~(UNCHANGED store) => last'.verified ]_vars

\* a charge-succeeded event with a bad signature was refused while no record
\* existed for any payment intent, so its handler would have minted one
C17_Witness ==
  /\ last.op = "webhook"
  /\ ~last.verified
  /\ last.type = "payment_intent.succeeded"
  /\ last.status = 400
  /\ DOMAIN paymentIntentIndex = {}

\* C18: at /license/verify and /license/redeem every input that is present and
\* does not yield a license (a forged, wrong-type or expired token, an unknown
\* key, a known key whose stored token is expired) gets one and the same
\* answer, 400 "Invalid license key"; at /trial/status every token that fails
\* (forged, wrong-type, expired) gets one and the same answer, 400 "Invalid
\* trial token".
C18_FailuresIndistinguishable ==
  [][ /\ ( /\ last'.op \in {"license/verify", "license/redeem"}
           /\ last'.req.kind # "missing"
           /\ last'.status # 200 ) =>
           last'.status = 400 /\ last'.body = InvalidKey
      /\ ( /\ last'.op = "trial/status"
           /\ last'.req.kind = "token"
           /\ last'.status # 200 ) =>
           last'.status = 400 /\ last'.body = InvalidTrial ]_vars

\* an expired trial token was refused at /trial/status, at a time when the
\* stored token of a known license key is expired as well
C18_Witness ==
  /\ last.op = "trial/status"
  /\ last.req.kind = "token"
  /\ ~verifyTrialToken(last.req.token, now).ok
  /\ verifyTrialToken(last.req.token, now).error = "TokenExpiredError"
  /\ last.status = 400
  /\ last.body = InvalidTrial
  /\ \E k \in DOMAIN licenses :
       ~verifyLicenseToken(licenses[k].fullToken, now).ok

\* C19 (as claimed): a failure of /payments/create or /payments/license is
\* answered with {ok: false, error} and a 4xx or 5xx status, 5xx when the call
\* to the payment adapter failed or threw.
C19_AdapterFailureIs5xx ==
  [][ last'.op \in {"payments/create", "payments/license"} =>
        /\ ~last'.body.ok => last'.status >= 400
        /\ last'.adapter = "failed" =>
             /\ ~last'.body.ok
             /\ last'.status >= 500
             /\ last'.status <= 599 ]_vars

\* PFW-[A-Z0-9]{4}-[A-Z0-9]{4}-[A-Z0-9]{4}-[A-Z0-9]{4}, matched as a whole
MatchesKeyFormat(key) ==
  /\ Len(key) = 23
  /\ SubSeq(key, 1, 4) = <<"P", "F", "W", "-">>
  /\ \A i \in 5..23 :
       IF (i - 4) % 5 = 0 THEN key[i] = "-"
       ELSE \E c \in 1..Len(Chars) : key[i] = Chars[c]

\* C20 (as claimed): the key of every record stored by /payments/license or by
\* a webhook handler, each produced by generateLicenseKey, is PFW followed by
\* exactly four dash-separated groups of four characters from A-Z, 0-9.
C20_KeyFormat ==
  \A k \in DOMAIN licenses :
    ~licenses[k].metadata.isDevelopment => k \in GenKeys /\ MatchesKeyFormat(k)

\* C21: for each limiter and each client IP, a request that finds no window
\* open (no entry, or a time after the entry's reset time) is admitted and
\* opens a window with count 1 that resets windowMs later; a request inside an
\* open window is admitted and counted while the count is below max, and is
\* otherwise answered 429 leaving the count and the reset time as they were;
\* so the count, the number of requests admitted in the window, never exceeds
\* max; no request touches another client's or the other limiter's entry.
C21_LimiterWindow ==
  [][ IF last'.op = "limiter"
      THEN LET l == last'.limiter
               ip == last'.ip
               before == MapGet(hits[l], ip)
               after == MapGet(hits'[l], ip)
               open == Truthy(before) /\ now <= Val(before).resetAt
           IN  /\ \A m \in Limiters : \A i \in DOMAIN hits[m] :
                    (m # l \/ i # ip) =>
                      i \in DOMAIN hits'[m] /\ hits'[m][i] = hits[m][i]
               /\ \A m \in Limiters : DOMAIN hits'[m] \subseteq DOMAIN hits[m] \cup {ip}
               /\ Truthy(after)
               /\ Val(after).count >= 1
               /\ Val(after).count <= LimiterMax(l)
               /\ IF ~open
                  THEN /\ last'.admitted
                       /\ after = Some([count |-> 1, resetAt |-> now + WindowTicks])
                  ELSE IF Val(before).count < LimiterMax(l)
                  THEN /\ last'.admitted
                       /\ after = Some([count |-> Val(before).count + 1,
                                        resetAt |-> Val(before).resetAt])
                  ELSE /\ ~last'.admitted
                       /\ last'.status = Some(429)
                       /\ after = before
      ELSE UNCHANGED hits ]_vars

\* a window opened after the reset time of the one opened at StartTime was
\* filled, and the next request in it was answered 429
C21_Witness ==
  /\ last.op = "limiter"
  /\ ~last.admitted
  /\ last.status = Some(429)
  /\ hits[last.limiter][last.ip].count = LimiterMax(last.limiter)
  /\ hits[last.limiter][last.ip].resetAt > StartTime + WindowTicks

\* C22 (as claimed): a /payments/license request adds or changes an entry of
\* the payment-intent index or of the subscription index only for the id the
\* adapter was asked about and confirmed in that request.
C22_VerifiedOnlyIndexing ==
  [][ last'.op = "payments/license" =>
        /\ \A id \in DOMAIN paymentIntentIndex' :
             MapGet(paymentIntentIndex', id) # MapGet(paymentIntentIndex, id) =>
               /\ last'.adapter = "confirmed"
               /\ Checks(last'.req) = "payment_intent"
               /\ last'.req.paymentIntentId = id
        /\ \A id \in DOMAIN subscriptionIndex' :
             MapGet(subscriptionIndex', id) # MapGet(subscriptionIndex, id) =>
               /\ last'.adapter = "confirmed"
               /\ Checks(last'.req) = "subscription"
               /\ last'.req.subscriptionId = id ]_vars

\* C23 (as claimed): in every reachable state each entry id -> key of the
\* payment-intent index names a record whose metadata.paymentIntentId is id,
\* and each entry id -> key of the subscription index names a record whose
\* metadata.subscriptionId is id, also when the generator repeats a key.
C23_IndexAgreesWithRecord ==
  /\ \A id \in DOMAIN paymentIntentIndex :
       /\ paymentIntentIndex[id] \in DOMAIN licenses
       /\ licenses[paymentIntentIndex[id]].metadata.paymentIntentId = id
  /\ \A id \in DOMAIN subscriptionIndex :
       /\ subscriptionIndex[id] \in DOMAIN licenses
       /\ licenses[subscriptionIndex[id]].metadata.subscriptionId = id

====
